---- MODULE Spec2Model ----
(***************************************************************************)
(* Model of backend/telemetry_storage.py: the process-wide TelemetryStorage *)
(* buffer (pending_batch), its threshold and explicit flush, the chunked    *)
(* write and the per-chunk retry loop, called by request threads that share *)
(* the one global instance without any lock.                                *)
(*                                                                          *)
(* Each action is one step between two points at which another request      *)
(* thread may run: one read or one mutation of the shared list, or one      *)
(* blocking remote insert.                                                  *)
(***************************************************************************)
EXTENDS Integers, Sequences, FiniteSets, TLC

\* TelemetryStorage(batch_size, max_retries), scaled down from 500 and 3.
batch_size == 2
max_retries == 2

\* Explicit flush_batch requests a single caller may issue.
MaxFlushes == 2
\* Records the concurrent callers may add between them, and the explicit
\* flush_batch requests they may issue.
MaxConcRecords == 2
MaxConcFlushes == 1

\* Records a single caller may add: enough for a pending batch of
\* 2 * batch_size + 1 records, which splits into three chunks.
MaxSeqRecords == 2 * batch_size + 1

\* Records a single caller may add, and explicit flushes it may request,
\* when it also makes the service's other requests.
MaxApiRecords == batch_size + 1
MaxApiFlushes == 1

\* Longest telemetry line and longest value text given to the parser, in
\* characters.
MaxLineLen == 4
MaxValueLen == 5

\* Request threads sharing the global telemetry_storage instance.
Threads == {1, 2}

VARIABLES
    pending_batch,  \* self.pending_batch: the shared list of records
    store,          \* rows of table "telemetry" whose insert was confirmed
    pc,             \* pc[t]: where thread t stands in its call
    op,             \* op[t]: the operation thread t runs or ran last
    ret,            \* ret[t]: the value that operation returned
    flushed,        \* flushed[t]: the operation invoked flush_batch
    starts,         \* starts[t]: indices range(0, len(data), batch_size) left
    chunks,         \* chunks[t]: the list of slices built so far
    chunk_idx,      \* chunk_idx[t]: index of the chunk being written
    attempt,        \* attempt[t]: loop variable of _write_chunk_with_retry
    log,            \* log[t]: the insert attempts of the operation, in order
    entry,          \* entry[t]: pending_batch as flush_batch found it
    appended,       \* appended[t]: pending_batch right after this add's append
    flush_ret,      \* flush_ret[t]: what the operation's flush_batch returned
    flushed_ok,     \* ids of the records written by flushes that returned True
    adds,           \* records appended so far
    explicit,       \* explicit flush_batch requests so far
    flush_calls,    \* flush_batch invocations so far
    everInsert,     \* some remote insert has been issued
    stale,          \* a flush has failed since pending_batch was last cleared
    overlap,        \* two threads have been inside flush_batch at one time
    resp,           \* resp[t]: the HTTP response to thread t's last request
    raw_data,       \* the line last given to parse_telemetry_line
    parsed_data,    \* the dict that call returned
    raw_value,      \* the value text of a pair, as split off the line
    converted       \* what _convert_value(value.strip()) made of it

vars == <<pending_batch, store, pc, op, ret, flushed, starts, chunks,
          chunk_idx, attempt, log, entry, appended, flush_ret, flushed_ok,
          adds, explicit, flush_calls, everInsert, stale, overlap, resp,
          raw_data, parsed_data, raw_value, converted>>

storage == <<pending_batch, store, pc, op, ret, flushed, starts, chunks,
             chunk_idx, attempt, log, entry, appended, flush_ret, flushed_ok,
             adds, explicit, flush_calls, everInsert, stale, overlap,
             resp>>
parser == <<raw_data, parsed_data, raw_value, converted>>

locals == <<starts, chunks, chunk_idx, attempt>>
counters == <<adds, explicit, flush_calls, everInsert>>

----------------------------------------------------------------------------
\* Pure parts of the code.

Min(a, b) == IF a < b THEN a ELSE b

\* Line 29-30: a record without created_at is stamped before it is buffered.
Stamp(rec) == IF rec.created_at THEN rec ELSE [rec EXCEPT !.created_at = TRUE]

\* Line 36: the threshold test after the append.
BatchFullStrict(batch) == Len(batch) > batch_size
BatchFullEarly(batch) == Len(batch) >= batch_size - 1
BatchFullExact(batch) == Len(batch) = batch_size
BatchFull(batch) == Len(batch) >= batch_size

\* Line 72: range(0, n, batch_size) as the sequence of its values.
RECURSIVE RangeFrom(_, _)
RangeFrom(i, n) == IF i >= n THEN <<>> ELSE <<i>> \o RangeFrom(i + batch_size, n)
RangeStarts(n) == RangeFrom(0, n)

\* Line 72: data[i:i + batch_size], Python's clamped slice.
SliceOverlap(data, i) ==
    IF i >= Len(data) THEN <<>>
    ELSE SubSeq(data, i + 1, Min(i + batch_size + 1, Len(data)))
Slice(data, i) ==
    IF i >= Len(data) THEN <<>>
    ELSE SubSeq(data, i + 1, Min(i + batch_size, Len(data)))

\* Lines 88-93: what one insert(chunk).execute() can do. "ok": rows returned;
\* "empty": returns with no rows; "raise": an exception. An empty chunk
\* cannot return rows.
Outcomes(chunk) ==
    IF chunk = <<>> THEN {"empty", "raise"} ELSE {"ok", "empty", "raise"}

\* Line 95: `if response.data`, reached only when nothing was raised.
ConfirmedLax(outcome) == outcome # "raise"
Confirmed(outcome) == outcome = "ok"

\* Line 86: range(max_retries) has another value after `att`.
HasNextAttemptLax(att) == att + 1 <= max_retries
HasNextAttempt(att) == att + 1 < max_retries

\* Lines 102, 108-109: the sleep after attempt `att`, in half seconds
\* (0: none). Only the except branch sleeps, and not after the last attempt.
SleepAfterEveryFailure(att, outcome) ==
    IF outcome # "ok" /\ att < max_retries - 1 THEN 2 ^ att ELSE 0
SleepAfter(att, outcome) ==
    IF outcome = "raise" /\ att < max_retries - 1 THEN 2 ^ att ELSE 0

\* Lines 55-58: the batch after _write_telemetry_batch returned `success`.
AfterWriteAlways(batch, success) == <<>>
AfterWriteNever(batch, success) == batch
AfterWrite(batch, success) == IF success THEN <<>> ELSE batch

\* Lines 76-78: after chunk `idx` of `n` was written, the next chunk to
\* write (n: none left).
NextChunk(idx, n) == idx + 1

\* Lines 76-78: after chunk `idx` of `n` failed, the next chunk to write
\* (n: the loop is left).
AfterFailedChunkContinue(idx, n) == idx + 1
AfterFailedChunk(idx, n) == n

\* Line 51: what flush_batch returns when nothing is pending.
EmptyFlushReturnFalse == FALSE
EmptyFlushReturn == TRUE

\* supabase_client.py lines 53-61: what the probe query of health_check can
\* do, and what health_check makes of it.
ProbeOutcomes == {"ok", "raise"}
HealthCheckAlways(outcome) == TRUE
HealthCheck(outcome) == outcome = "ok"

\* A boolean as it stands in a JSON response; "absent": no such field.
Str(b) == IF b THEN "true" ELSE "false"

\* No response yet, or none at all. `probes` lists what the health probes
\* the request made did, `queried` says whether a query reached the store,
\* `limit` and `offset` are the query parameters as they were sent.
NoResp == [route |-> "none", status |-> 0, success |-> "absent",
           stored |-> "absent", healthy |-> "absent", connected |-> "absent",
           pending |-> -1, probes |-> <<>>, queried |-> FALSE,
           limit |-> "absent", offset |-> "absent"]

\* run_enhanced_supabase.py lines 137-152: the response of
\* POST /telemetry/parse?store=true once add_telemetry_data has returned
\* storage_success and get_batch_status has probed the store.
IngestResponseFailing(storage_success, probe) ==
    [NoResp EXCEPT !.route = "parse",
                   !.status = IF storage_success THEN 200 ELSE 500,
                   !.success = Str(storage_success),
                   !.stored = Str(storage_success),
                   !.healthy = Str(HealthCheck(probe)),
                   !.probes = <<probe>>]
IngestResponse(storage_success, probe) ==
    [NoResp EXCEPT !.route = "parse", !.status = 200, !.success = "true",
                   !.stored = Str(storage_success),
                   !.healthy = Str(HealthCheck(probe)),
                   !.probes = <<probe>>]

\* run_enhanced_supabase.py lines 127-129: no body, and lines 131-152 with
\* store=false: parsed, nothing stored, no batch_status.
NoBodyResponse == [NoResp EXCEPT !.route = "parse", !.status = 400]
NoStoreResponse ==
    [NoResp EXCEPT !.route = "parse", !.status = 200, !.success = "true"]

\* run_enhanced_supabase.py lines 165-173: the response of
\* POST /telemetry/batch/flush.
FlushResponse(success, probe) ==
    [NoResp EXCEPT !.route = "flush",
                   !.status = IF success THEN 200 ELSE 500,
                   !.success = Str(success),
                   !.healthy = Str(HealthCheck(probe)),
                   !.probes = <<probe>>]

\* telemetry_storage.py lines 115-122 behind run_enhanced_supabase.py lines
\* 182-190: GET /telemetry/batch/status.
StatusResponse(batch, probe) ==
    [NoResp EXCEPT !.route = "status", !.status = 200,
                   !.pending = Len(batch),
                   !.healthy = Str(HealthCheck(probe)),
                   !.probes = <<probe>>]

\* run_enhanced_supabase.py lines 102-114: GET /health probes the store
\* itself and once more inside get_batch_status.
HealthResponse(batch, probe, statusProbe) ==
    [NoResp EXCEPT !.route = "health", !.status = 200,
                   !.pending = Len(batch),
                   !.connected = Str(HealthCheck(probe)),
                   !.healthy = Str(HealthCheck(statusProbe)),
                   !.probes = <<probe, statusProbe>>]

\* run_enhanced_supabase.py lines 238-248: GET /config.
ConfigResponse == [NoResp EXCEPT !.route = "config", !.status = 200]

\* Values of the limit and offset parameters of GET /telemetry/query;
\* "absent": the parameter is not sent and the default is used.
QueryArgs == {"absent", "-1", "0", "2", "x"}

\* run_enhanced_supabase.py lines 204-205: int(request.args.get(name,
\* default)); ok = FALSE: int() raised ValueError.
ToInt(arg, default) ==
    CASE arg = "absent" -> [ok |-> TRUE, val |-> default]
      [] arg = "-1" -> [ok |-> TRUE, val |-> -1]
      [] arg = "0" -> [ok |-> TRUE, val |-> 0]
      [] arg = "2" -> [ok |-> TRUE, val |-> 2]
      [] OTHER -> [ok |-> FALSE, val |-> 0]

\* run_enhanced_supabase.py lines 202-236: the query route sends the query
\* whenever both parameters convert; its except clause answers 500.
\* `outcome` is what query.execute() does when it is reached.
QueryResponse(limit, offset, outcome) ==
    LET l == ToInt(limit, 100)
        o == ToInt(offset, 0)
        sent == l.ok /\ o.ok
    IN [NoResp EXCEPT !.route = "query",
                      !.limit = limit, !.offset = offset,
                      !.queried = sent,
                      !.status = IF sent /\ outcome = "ok" THEN 200 ELSE 500,
                      !.success = IF sent /\ outcome = "ok" THEN "true"
                                  ELSE "absent"]

----------------------------------------------------------------------------
\* Strings are sequences of characters. A telemetry line is made of the
\* separators, white space, a digit, a letter in either case, and the three
\* metadata keys (one of them also in upper case), each key standing for the
\* run of letters that spells it. A value text is made of digits, the
\* decimal point, the exponent letter, the sign and white space.
LineChars == {",", ":", " ", "1", "x", "K", "RAW_DATA", "raw_data",
              "parser_version", "data_source"}
ValueChars == {"0", "1", ".", "e", "-", " "}

Strings(chars, maxLen) == UNION { [1 .. n -> chars] : n \in 0 .. maxLen }

Digits == {"0", "1"}
DigitVal(c) == IF c = "1" THEN 1 ELSE 0

Contains(str, c) == \E i \in DOMAIN str : str[i] = c

\* str.find(c) + 1: the first place of c in str, 0 if there is none.
Find(str, c) ==
    IF Contains(str, c)
    THEN CHOOSE i \in DOMAIN str :
             str[i] = c /\ \A j \in 1 .. (i - 1) : str[j] # c
    ELSE 0

\* str.strip(): without its leading and trailing white space.
RECURSIVE LStrip(_)
LStrip(str) ==
    IF str # <<>> /\ Head(str) = " " THEN LStrip(Tail(str)) ELSE str

RECURSIVE RStrip(_)
RStrip(str) ==
    IF str # <<>> /\ str[Len(str)] = " "
    THEN RStrip(SubSeq(str, 1, Len(str) - 1))
    ELSE str

Strip(str) == RStrip(LStrip(str))

\* str.lower(), character by character.
LowerChar(c) ==
    CASE c = "K" -> "k"
      [] c = "RAW_DATA" -> "raw_data"
      [] OTHER -> c
Lower(str) == [i \in DOMAIN str |-> LowerChar(str[i])]

\* str.split(sep): the pieces between the separators, empty ones included.
RECURSIVE Split(_, _)
Split(str, sep) ==
    LET at == Find(str, sep)
    IN IF at = 0
       THEN <<str>>
       ELSE <<SubSeq(str, 1, at - 1)>>
                \o Split(SubSeq(str, at + 1, Len(str)), sep)

\* str.split(sep, 1) of a string that holds sep: what stands before the
\* first separator and what stands after it.
SplitFirst(str, sep) ==
    LET at == Find(str, sep)
    IN <<SubSeq(str, 1, at - 1), SubSeq(str, at + 1, Len(str))>>

\* The number a string of digits writes.
RECURSIVE DigitsVal(_)
DigitsVal(str) ==
    IF str = <<>> THEN 0
    ELSE 10 * DigitsVal(SubSeq(str, 1, Len(str) - 1))
             + DigitVal(str[Len(str)])

IsDigits(str) == str # <<>> /\ \A i \in DOMAIN str : str[i] \in Digits

\* An optional sign in front.
Negative(str) == str # <<>> /\ Head(str) = "-"
Unsigned(str) == IF Negative(str) THEN Tail(str) ELSE str
SignedVal(str) ==
    IF Negative(str) THEN 0 - DigitsVal(Unsigned(str))
    ELSE DigitsVal(Unsigned(str))

\* int(str): white space around the literal is allowed, then an optional
\* sign and digits; anything else raises ValueError.
IsIntLiteral(str) == IsDigits(Unsigned(Strip(str)))
IntVal(str) == SignedVal(Strip(str))

\* float(str): white space around the literal, an optional sign, digits
\* with at most one decimal point and a digit on at least one side of it,
\* and an optional exponent of an optional sign and digits.
Mantissa(str) ==
    LET u == Unsigned(Strip(str))
        at == Find(u, "e")
    IN IF at = 0 THEN u ELSE SubSeq(u, 1, at - 1)
HasExponent(str) == Contains(Strip(str), "e")
Exponent(str) ==
    LET u == Unsigned(Strip(str))
    IN SubSeq(u, Find(u, "e") + 1, Len(u))
IntPart(str) ==
    LET m == Mantissa(str)
        at == Find(m, ".")
    IN IF at = 0 THEN m ELSE SubSeq(m, 1, at - 1)
FracPart(str) ==
    LET m == Mantissa(str)
        at == Find(m, ".")
    IN IF at = 0 THEN <<>> ELSE SubSeq(m, at + 1, Len(m))

IsFloatLiteral(str) ==
    /\ IntPart(str) \o FracPart(str) # <<>>
    /\ \A i \in DOMAIN IntPart(str) : IntPart(str)[i] \in Digits
    /\ \A i \in DOMAIN FracPart(str) : FracPart(str)[i] \in Digits
    /\ HasExponent(str) => IsDigits(Unsigned(Exponent(str)))

\* The number a float literal writes, as digits * 10^exp with no trailing
\* zero in digits, so that equal numbers have equal values.
RECURSIVE Normal(_, _)
Normal(digits, exp) ==
    IF digits = 0 THEN [digits |-> 0, exp |-> 0]
    ELSE IF digits % 10 = 0 THEN Normal(digits \div 10, exp + 1)
    ELSE [digits |-> digits, exp |-> exp]

FloatVal(str) ==
    LET n == Normal(DigitsVal(IntPart(str) \o FracPart(str)),
                    (IF HasExponent(str) THEN SignedVal(Exponent(str))
                     ELSE 0) - Len(FracPart(str)))
    IN [n EXCEPT !.digits = IF Negative(Strip(str)) THEN 0 - @ ELSE @]

\* Python values: a str, an int, a float; None before any call.
None == [kind |-> "none", text |-> <<>>, digits |-> 0, exp |-> 0]
StrOf(str) == [None EXCEPT !.kind = "str", !.text = str]
IntOf(n) == [None EXCEPT !.kind = "int", !.digits = n]
FloatOf(f) == [None EXCEPT !.kind = "float", !.digits = f.digits,
                            !.exp = f.exp]

\* _convert_value, lines 67-77: int() when the value holds no '.', float()
\* when it does; ValueError gives the value back as it came.
ConvertValueAnyNumber(value_str) ==
    IF IsIntLiteral(value_str) THEN IntOf(IntVal(value_str))
    ELSE IF IsFloatLiteral(value_str) THEN FloatOf(FloatVal(value_str))
    ELSE StrOf(value_str)
ConvertValue(value_str) ==
    IF ~Contains(value_str, ".")
    THEN IF IsIntLiteral(value_str) THEN IntOf(IntVal(value_str))
         ELSE StrOf(value_str)
    ELSE IF IsFloatLiteral(value_str) THEN FloatOf(FloatVal(value_str))
         ELSE StrOf(value_str)

\* A dict: a function from its keys. d[key] = val.
EmptyDict == [k \in {} |-> None]
Put(d, key, val) ==
    [k \in DOMAIN d \cup {key} |-> IF k = key THEN val ELSE d[k]]

\* Lines 41-45 and 48-50: a piece that holds ':' is split at the first one
\* and stored under its trimmed, lower-cased key; a piece without ':' is
\* skipped.
PutPair(d, pair) ==
    IF Contains(pair, ":")
    THEN Put(d, Lower(Strip(SplitFirst(pair, ":")[1])),
             ConvertValue(Strip(SplitFirst(pair, ":")[2])))
    ELSE d

RECURSIVE PutPairs(_, _)
PutPairs(d, pairs) ==
    IF pairs = <<>> THEN d
    ELSE PutPairs(PutPair(d, Head(pairs)), Tail(pairs))

\* Lines 37-50: with a ',' the trimmed line is split at the commas, without
\* one the line is a single pair.
Pairs(line) ==
    IF Contains(line, ",") THEN Split(Strip(line), ",") ELSE <<line>>

\* Lines 52-55: the metadata, assigned after the pairs.
MetadataKeys == {<<"raw_data">>, <<"parser_version">>, <<"data_source">>}
AddMetadataUnlessPresent(d, line) ==
    [k \in DOMAIN d \cup MetadataKeys |->
        IF k \in DOMAIN d THEN d[k]
        ELSE IF k = <<"raw_data">> THEN StrOf(line)
        ELSE IF k = <<"parser_version">> THEN StrOf(<<"1.0">>)
        ELSE StrOf(<<"flask_api">>)]
AddMetadata(d, line) ==
    Put(Put(Put(d, <<"raw_data">>, StrOf(line)),
            <<"parser_version">>, StrOf(<<"1.0">>)),
        <<"data_source">>, StrOf(<<"flask_api">>))

\* parse_telemetry_line, lines 32-57. Nothing in the try block can raise,
\* so the except branch of lines 59-65 is never taken.
ParseTelemetryLine(line) == AddMetadata(PutPairs(EmptyDict, Pairs(line)), line)

----------------------------------------------------------------------------
\* Line 37: what add_telemetry_data returns when it flushed.
AddReturnTrue(flushResult) == TRUE
AddReturn(flushResult) == flushResult

\* What a caller may pass: a mapping with or without created_at, or a value
\* that is no mapping (the membership test of line 29 raises on it).
Inputs(id) == { [id |-> id, created_at |-> c, mapping |-> m] :
                    c \in BOOLEAN, m \in BOOLEAN }

Buffered(inp) == Stamp([id |-> inp.id, created_at |-> inp.created_at])

Init ==
    /\ pending_batch = <<>>
    /\ store = <<>>
    /\ pc = [t \in Threads |-> "idle"]
    /\ op = [t \in Threads |-> "none"]
    /\ ret = [t \in Threads |-> FALSE]
    /\ flushed = [t \in Threads |-> FALSE]
    /\ starts = [t \in Threads |-> <<>>]
    /\ chunks = [t \in Threads |-> <<>>]
    /\ chunk_idx = [t \in Threads |-> 0]
    /\ attempt = [t \in Threads |-> 0]
    /\ log = [t \in Threads |-> <<>>]
    /\ entry = [t \in Threads |-> <<>>]
    /\ appended = [t \in Threads |-> <<>>]
    /\ flush_ret = [t \in Threads |-> FALSE]
    /\ flushed_ok = {}
    /\ adds = 0
    /\ explicit = 0
    /\ flush_calls = 0
    /\ everInsert = FALSE
    /\ stale = FALSE
    /\ overlap = FALSE
    /\ resp = [t \in Threads |-> NoResp]
    /\ raw_data = <<>>
    /\ parsed_data = EmptyDict
    /\ raw_value = <<>>
    /\ converted = None

\* Operation `name` returns `value`: the thread is idle again, its locals
\* are gone. The route that made the call probes the store for its
\* batch_status and responds; a direct call of the storage object (the only
\* way to pass it a value that is no mapping) has no response.
ReturnAs(t, name, value) ==
    /\ \E probe \in ProbeOutcomes :
          resp' = [resp EXCEPT ![t] =
                     CASE name = "add" -> IngestResponse(value, probe)
                       [] name = "flush" -> FlushResponse(value, probe)
                       [] OTHER -> NoResp]
    /\ pc' = [pc EXCEPT ![t] = "idle"]
    /\ ret' = [ret EXCEPT ![t] = value]
    /\ starts' = [starts EXCEPT ![t] = <<>>]
    /\ chunks' = [chunks EXCEPT ![t] = <<>>]
    /\ chunk_idx' = [chunk_idx EXCEPT ![t] = 0]
    /\ attempt' = [attempt EXCEPT ![t] = 0]

Return(t, value) == ReturnAs(t, op[t], value)

\* flush_batch returns `value`, to its caller add_telemetry_data (line 37)
\* or as the result of an explicit flush.
FlushReturn(t, value) ==
    /\ flush_ret' = [flush_ret EXCEPT ![t] = value]
    /\ Return(t, IF op[t] = "add" THEN AddReturn(value) ELSE value)

\* A new operation starts: what is remembered of the last one is dropped.
Begin(t, name, isFlush) ==
    /\ op' = [op EXCEPT ![t] = name]
    /\ flushed' = [flushed EXCEPT ![t] = isFlush]
    /\ flush_ret' = [flush_ret EXCEPT ![t] = FALSE]
    /\ log' = [log EXCEPT ![t] = <<>>]
    /\ entry' = [entry EXCEPT ![t] = <<>>]

Ids(batch) == { batch[i].id : i \in DOMAIN batch }

RECURSIVE Concat(_)
Concat(seqs) == IF seqs = <<>> THEN <<>> ELSE Head(seqs) \o Concat(Tail(seqs))

\* Thread t is inside flush_batch (lines 45-62 and what they call).
InFlush(t) ==
    pc[t] \in {"flush_check", "write_check", "range", "slice", "write",
               "clear"}

\* Thread t enters flush_batch: no lock is taken (line 45), so another
\* thread may be inside it.
EnterFlush(t) ==
    overlap' = (overlap \/ \E u \in Threads \ {t} : InFlush(u))

\* add_telemetry_data, lines 27-33: stamp and append. A value that is no
\* mapping raises at line 29; lines 41-43 turn that into False.
Add(t, maxRecords) ==
    /\ pc[t] = "idle"
    /\ UNCHANGED <<parser, overlap>>
    /\ adds < maxRecords
    /\ \E inp \in Inputs(adds + 1) :
          IF inp.mapping
          THEN /\ pending_batch' = Append(pending_batch, Buffered(inp))
               /\ appended' = [appended EXCEPT ![t] = pending_batch']
               /\ adds' = adds + 1
               /\ Begin(t, "add", FALSE)
               /\ pc' = [pc EXCEPT ![t] = "add_check"]
               /\ resp' = [resp EXCEPT ![t] = NoResp]
               /\ UNCHANGED <<ret, locals>>
          ELSE /\ Begin(t, "bad_add", FALSE)
               /\ appended' = [appended EXCEPT ![t] = <<>>]
               /\ ReturnAs(t, "bad_add", FALSE)
               /\ UNCHANGED <<pending_batch, adds>>
    /\ UNCHANGED <<store, flushed_ok, explicit, flush_calls, everInsert,
                   stale>>

\* add_telemetry_data, lines 36-39: flush when the batch is full, else True.
AddCheck(t) ==
    /\ pc[t] = "add_check"
    /\ UNCHANGED parser
    /\ IF BatchFull(pending_batch)
       THEN /\ pc' = [pc EXCEPT ![t] = "flush_check"]
            /\ flushed' = [flushed EXCEPT ![t] = TRUE]
            /\ flush_calls' = flush_calls + 1
            /\ EnterFlush(t)
            /\ UNCHANGED <<ret, resp, locals>>
       ELSE /\ Return(t, TRUE)
            /\ UNCHANGED <<flushed, flush_calls, overlap>>
    /\ UNCHANGED <<pending_batch, store, op, log, entry, appended,
                   flush_ret, flushed_ok, adds, explicit, everInsert, stale>>

\* An explicit flush_batch() call (POST /telemetry/batch/flush).
Flush(t, maxFlushes) ==
    /\ pc[t] = "idle"
    /\ UNCHANGED parser
    /\ explicit < maxFlushes
    /\ Begin(t, "flush", TRUE)
    /\ EnterFlush(t)
    /\ appended' = [appended EXCEPT ![t] = <<>>]
    /\ pc' = [pc EXCEPT ![t] = "flush_check"]
    /\ explicit' = explicit + 1
    /\ flush_calls' = flush_calls + 1
    /\ resp' = [resp EXCEPT ![t] = NoResp]
    /\ UNCHANGED <<pending_batch, store, ret, locals, flushed_ok, adds,
                   everInsert, stale>>

\* flush_batch, lines 50-51: nothing pending, nothing to do.
FlushCheck(t) ==
    /\ pc[t] = "flush_check"
    /\ UNCHANGED <<parser, overlap>>
    /\ entry' = [entry EXCEPT ![t] = pending_batch]
    /\ IF pending_batch = <<>>
       THEN FlushReturn(t, EmptyFlushReturn)
       ELSE /\ pc' = [pc EXCEPT ![t] = "write_check"]
            /\ UNCHANGED <<ret, resp, locals, flush_ret>>
    /\ UNCHANGED <<pending_batch, store, op, flushed, log, appended,
                   flushed_ok, counters, stale>>

\* _write_telemetry_batch, lines 68-69: `data` is the shared list itself.
WriteCheck(t) ==
    /\ pc[t] = "write_check"
    /\ UNCHANGED <<parser, overlap>>
    /\ pc' = [pc EXCEPT ![t] =
                IF pending_batch = <<>> THEN "clear" ELSE "range"]
    /\ UNCHANGED <<pending_batch, store, op, ret, flushed, locals, log,
                   entry, appended, flush_ret, flushed_ok, counters, stale,
                   resp>>

\* Line 72: range(0, len(data), batch_size) is fixed before the first slice.
Range(t) ==
    /\ pc[t] = "range"
    /\ UNCHANGED <<parser, overlap>>
    /\ starts' = [starts EXCEPT ![t] = RangeStarts(Len(pending_batch))]
    /\ chunks' = [chunks EXCEPT ![t] = <<>>]
    /\ pc' = [pc EXCEPT ![t] = "slice"]
    /\ UNCHANGED <<pending_batch, store, op, ret, flushed, chunk_idx,
                   attempt, log, entry, appended, flush_ret, flushed_ok,
                   counters, stale, resp>>

\* Line 72: one data[i:i + batch_size]; after the last, line 74 starts the
\* loop over the chunks.
TakeSlice(t) ==
    /\ pc[t] = "slice"
    /\ UNCHANGED <<parser, overlap>>
    /\ IF starts[t] = <<>>
       THEN /\ pc' = [pc EXCEPT ![t] =
                        IF chunks[t] = <<>> THEN "clear" ELSE "write"]
            /\ chunk_idx' = [chunk_idx EXCEPT ![t] = 0]
            /\ attempt' = [attempt EXCEPT ![t] = 0]
            /\ UNCHANGED <<starts, chunks>>
       ELSE /\ chunks' = [chunks EXCEPT ![t] =
                            Append(@, Slice(pending_batch, Head(starts[t])))]
            /\ starts' = [starts EXCEPT ![t] = Tail(@)]
            /\ UNCHANGED <<pc, chunk_idx, attempt>>
    /\ UNCHANGED <<pending_batch, store, op, ret, flushed, log, entry,
                   appended, flush_ret, flushed_ok, counters, stale, resp>>

\* _write_chunk_with_retry, lines 86-113: one attempt of the loop, with the
\* sleep that follows it; lines 74-80 when the chunk is settled; and, when
\* the write has failed, lines 55-58 of flush_batch, which returns False.
Attempt(t) ==
    /\ pc[t] = "write"
    /\ UNCHANGED <<parser, overlap>>
    /\ LET chunk == chunks[t][chunk_idx[t] + 1]
           n == Len(chunks[t])
           nextChunk == /\ attempt' = [attempt EXCEPT ![t] = 0]
                        /\ UNCHANGED <<pc, ret, resp, starts, chunks,
                                       flush_ret, pending_batch, stale>>
       IN \E outcome \in Outcomes(chunk) :
          /\ log' = [log EXCEPT ![t] = Append(@,
                        [idx |-> chunk_idx[t], chunk |-> chunk,
                         att |-> attempt[t], out |-> outcome,
                         sleep |-> SleepAfter(attempt[t], outcome)])]
          /\ everInsert' = TRUE
          /\ IF Confirmed(outcome)
             THEN /\ store' = store \o chunk
                  /\ LET nxt == NextChunk(chunk_idx[t], n)
                     IN IF nxt < n
                        THEN /\ chunk_idx' = [chunk_idx EXCEPT ![t] = nxt]
                             /\ nextChunk
                        ELSE /\ pc' = [pc EXCEPT ![t] = "clear"]
                             /\ UNCHANGED <<ret, resp, locals, flush_ret,
                                            pending_batch, stale>>
             ELSE /\ UNCHANGED store
                  /\ IF HasNextAttempt(attempt[t])
                     THEN /\ attempt' = [attempt EXCEPT ![t] = @ + 1]
                          /\ UNCHANGED <<pc, ret, resp, starts, chunks,
                                         chunk_idx, flush_ret,
                                         pending_batch, stale>>
                     ELSE LET nxt == AfterFailedChunk(chunk_idx[t], n)
                          IN IF nxt < n
                             THEN /\ chunk_idx' = [chunk_idx EXCEPT ![t] = nxt]
                                  /\ nextChunk
                             ELSE /\ pending_batch' =
                                        AfterWrite(pending_batch, FALSE)
                                  /\ stale' = TRUE
                                  /\ FlushReturn(t, FALSE)
    /\ UNCHANGED <<op, flushed, entry, appended, flushed_ok, adds, explicit,
                   flush_calls>>

\* flush_batch, lines 55-58: the write succeeded, the list is cleared and
\* True returned.
Clear(t) ==
    /\ pc[t] = "clear"
    /\ UNCHANGED <<parser, overlap>>
    /\ pending_batch' = AfterWrite(pending_batch, TRUE)
    /\ flushed_ok' = flushed_ok \cup
                        UNION { Ids(log[t][i].chunk) : i \in DOMAIN log[t] }
    /\ stale' = FALSE
    /\ FlushReturn(t, TRUE)
    /\ UNCHANGED <<store, op, flushed, log, entry, appended, counters>>

\* A request that makes no call that changes the storage object: it only
\* leaves its response. What is remembered of the thread's last operation
\* is dropped.
Answer(t, name, response) ==
    /\ pc[t] = "idle"
    /\ UNCHANGED <<parser, overlap>>
    /\ Begin(t, name, FALSE)
    /\ appended' = [appended EXCEPT ![t] = <<>>]
    /\ ret' = [ret EXCEPT ![t] = FALSE]
    /\ resp' = [resp EXCEPT ![t] = response]
    /\ UNCHANGED <<pending_batch, store, pc, locals, flushed_ok, counters,
                   stale>>

\* POST /telemetry/parse without a body.
IngestNoBody(t) == Answer(t, "ingest_nobody", NoBodyResponse)

\* POST /telemetry/parse?store=false with a body.
IngestNoStore(t) == Answer(t, "ingest_nostore", NoStoreResponse)

\* GET /telemetry/batch/status.
GetStatus(t) ==
    \E probe \in ProbeOutcomes :
        Answer(t, "status", StatusResponse(pending_batch, probe))

\* GET /health.
Health(t) ==
    \E probe \in ProbeOutcomes, statusProbe \in ProbeOutcomes :
        Answer(t, "health", HealthResponse(pending_batch, probe, statusProbe))

\* GET /telemetry/query.
Query(t) ==
    \E limit \in QueryArgs, offset \in QueryArgs, outcome \in ProbeOutcomes :
        Answer(t, "query", QueryResponse(limit, offset, outcome))

\* GET /config.
GetConfig(t) == Answer(t, "config", ConfigResponse)

Routes(t) ==
    \/ IngestNoBody(t)
    \/ IngestNoStore(t)
    \/ GetStatus(t)
    \/ Health(t)
    \/ Query(t)
    \/ GetConfig(t)

Step(t, maxRecords, maxFlushes) ==
    \/ Add(t, maxRecords)
    \/ AddCheck(t)
    \/ Flush(t, maxFlushes)
    \/ FlushCheck(t)
    \/ WriteCheck(t)
    \/ Range(t)
    \/ TakeSlice(t)
    \/ Attempt(t)
    \/ Clear(t)

\* Concurrent request threads on the global instance.
Next == \E t \in Threads : Step(t, MaxConcRecords, MaxConcFlushes)
Spec == Init /\ [][Next]_vars

\* One caller at a time.
NextSeq == Step(1, MaxSeqRecords, MaxFlushes)
SpecSeq == Init /\ [][NextSeq]_vars

\* One caller at a time, making any of the service's requests.
NextApi == Step(1, MaxApiRecords, MaxApiFlushes) \/ Routes(1)
SpecApi == Init /\ [][NextApi]_vars

\* No parser call has a result waiting for its caller.
ParserIdle == parsed_data = EmptyDict /\ converted = None

\* A call of parse_telemetry_line on any line.
ParseLine ==
    /\ ParserIdle
    /\ \E line \in Strings(LineChars, MaxLineLen) :
          /\ raw_data' = line
          /\ parsed_data' = ParseTelemetryLine(line)
    /\ raw_value' = <<>>
    /\ converted' = None
    /\ UNCHANGED storage

\* Lines 45 and 50: the value text of a pair is trimmed and converted.
ConvertPairValue ==
    /\ ParserIdle
    /\ \E text \in Strings(ValueChars, MaxValueLen) :
          /\ raw_value' = text
          /\ converted' = ConvertValue(Strip(text))
    /\ raw_data' = <<>>
    /\ parsed_data' = EmptyDict
    /\ UNCHANGED storage

\* The caller takes the result; the parser keeps nothing of the call.
TakeResult ==
    /\ ~ParserIdle
    /\ raw_data' = <<>>
    /\ parsed_data' = EmptyDict
    /\ raw_value' = <<>>
    /\ converted' = None
    /\ UNCHANGED storage

\* The parser alone, one call at a time.
NextParse == ParseLine \/ ConvertPairValue \/ TakeResult
SpecParse == Init /\ [][NextParse]_vars

----------------------------------------------------------------------------
\* What the claims speak of.

\* Thread t has finished an operation and started no other.
Done(t) == pc[t] = "idle" /\ op[t] # "none"

\* Thread t's operation ran flush_batch to its end.
FlushDone(t) == Done(t) /\ flushed[t]

\* Every insert attempt of thread t's operation failed, and there were some.
AllFailed(t) ==
    /\ log[t] # <<>>
    /\ \A i \in DOMAIN log[t] : log[t][i].out # "ok"

AllOk(t) ==
    /\ log[t] # <<>>
    /\ \A i \in DOMAIN log[t] : log[t][i].out = "ok"

\* The attempts thread t's operation made on chunk k.
AttemptsOn(t, k) == { i \in DOMAIN log[t] : log[t][i].idx = k }

ChunkIdxs(t) == { log[t][i].idx : i \in DOMAIN log[t] }

Ceil(n, d) == (n + d - 1) \div d

\* C1: a flush of a non-empty batch whose every insert attempt failed
\* returned False and left pending_batch as it found it, same records in the
\* same order.
C1_FlushFailurePreservesData ==
    \A t \in Threads :
        (FlushDone(t) /\ entry[t] # <<>> /\ AllFailed(t))
            => (~flush_ret[t] /\ pending_batch = entry[t])

C1_Witness ==
    /\ FlushDone(1) /\ AllFailed(1) /\ ~flush_ret[1]
    /\ Len(entry[1]) > batch_size
    /\ pending_batch = entry[1]

\* C2: with one caller, the batch is untouched while its chunks are written
\* and empty once flush_batch has returned True.
C2_FlushAtomicOnSuccess ==
    \A t \in Threads :
        /\ pc[t] \in {"write_check", "range", "slice", "write", "clear"}
              => pending_batch = entry[t]
        /\ (FlushDone(t) /\ flush_ret[t]) => pending_batch = <<>>

C2_Witness ==
    /\ FlushDone(1) /\ flush_ret[1]
    /\ Len(entry[1]) > batch_size
    /\ Len(log[1]) >= 2
    /\ pending_batch = <<>>

\* C3: with only add calls so far, fewer than batch_size records mean no
\* flush and no remote insert; the call that appends record number
\* batch_size invokes flush_batch, and that is the only invocation.
C3_BufferThreshold ==
    explicit = 0 =>
        /\ adds < batch_size => (flush_calls = 0 /\ ~everInsert)
        /\ (adds = batch_size /\ pc[1] = "add_check") => flush_calls = 0
        /\ (adds = batch_size /\ pc[1] # "add_check") => flush_calls = 1

C3_Witness ==
    /\ explicit = 0 /\ adds = batch_size /\ Done(1) /\ op[1] = "add"
    /\ flush_calls = 1 /\ flushed[1] /\ everInsert

\* C4: no chunk gets more than max_retries insert attempts, numbered
\* 0 .. max_retries - 1 in order; a chunk whose attempts all failed got
\* exactly max_retries of them and the flush returned False.
C4_RetryBound ==
    \A t \in Threads : \A k \in ChunkIdxs(t) :
        LET tries == AttemptsOn(t, k) IN
        /\ Cardinality(tries) <= max_retries
        /\ { log[t][i].att : i \in tries } = 0 .. (Cardinality(tries) - 1)
        /\ (Done(t) /\ \A i \in tries : log[t][i].out # "ok")
              => (Cardinality(tries) = max_retries /\ ~flush_ret[t])

C4_Witness ==
    /\ Done(1) /\ AllFailed(1) /\ ~flush_ret[1]
    /\ Len(log[1]) = max_retries

\* C5: the chunks built from the n pending records are ceil(n / batch_size)
\* non-empty slices of at most batch_size records each whose concatenation
\* is the batch; a flush whose inserts all succeeded made one insert per
\* chunk, in that order, so 2 * batch_size + 1 records give inserts of
\* sizes batch_size, batch_size, 1.
C5_Chunking ==
    \A t \in Threads :
        /\ pc[t] = "write" =>
              /\ Len(chunks[t]) = Ceil(Len(entry[t]), batch_size)
              /\ \A i \in DOMAIN chunks[t] :
                    Len(chunks[t][i]) \in 1 .. batch_size
              /\ Concat(chunks[t]) = entry[t]
        /\ (FlushDone(t) /\ AllOk(t)) =>
              /\ Len(log[t]) = Ceil(Len(entry[t]), batch_size)
              /\ Concat([i \in DOMAIN log[t] |-> log[t][i].chunk]) = entry[t]
              /\ \A i \in DOMAIN log[t] :
                    /\ log[t][i].idx = i - 1
                    /\ Len(log[t][i].chunk) =
                          IF i * batch_size <= Len(entry[t])
                          THEN batch_size
                          ELSE Len(entry[t]) - (i - 1) * batch_size

C5_Witness ==
    /\ FlushDone(1) /\ AllOk(1)
    /\ Len(entry[1]) = 2 * batch_size + 1
    /\ [i \in DOMAIN log[1] |-> Len(log[1][i].chunk)] =
          <<batch_size, batch_size, 1>>

\* The chunks thread t's operation got confirmed, in the order written.
RECURSIVE OkRows(_)
OkRows(l) ==
    IF l = <<>> THEN <<>>
    ELSE (IF Head(l).out = "ok" THEN Head(l).chunk ELSE <<>>) \o OkRows(Tail(l))

IsSuffix(s, whole) ==
    /\ Len(s) <= Len(whole)
    /\ SubSeq(whole, Len(whole) - Len(s) + 1, Len(whole)) = s

\* C6: every record appended so far is still pending or is in a chunk the
\* store confirmed.
C6_NoRecordLost ==
    \A id \in 1 .. adds : id \in Ids(pending_batch) \cup Ids(store)

\* C7, as claimed: in every state the pending count is at most the records
\* added minus the records whose chunk the store confirmed.
C7_PendingBoundByConfirmedChunks ==
    Len(pending_batch) <= adds - Cardinality(Ids(store))

\* C7, amended: in every state the pending count is at most the records
\* added minus the records written by flushes that returned True.
C7_PendingBoundByConfirmedFlushes ==
    /\ flushed_ok \subseteq 1 .. adds
    /\ Len(pending_batch) <= adds - Cardinality(flushed_ok)

C7_Witness ==
    /\ flushed_ok # {}
    /\ pending_batch # <<>>
    /\ Len(pending_batch) = adds - Cardinality(flushed_ok)

\* The bound of C7 as claimed, at rest: no call is under way, so no
\* confirmed write is waiting for its clear. It fails for one caller after a
\* flush whose first chunk was confirmed and whose second chunk failed.
PendingBoundByConfirmedChunksAtRest ==
    (\A t \in Threads : pc[t] = "idle")
        => Len(pending_batch) <= adds - Cardinality(Ids(store))

\* C8: with one caller, an add that got a mapping has appended it; it ran
\* flush_batch and returned that call's result when the batch had reached
\* batch_size, and returned True without flushing otherwise. An add whose
\* argument made it fail internally returned False.
C8_AddResult ==
    \A t \in Threads :
        /\ (Done(t) /\ op[t] = "add") =>
              /\ appended[t] # <<>>
              /\ IF Len(appended[t]) >= batch_size
                 THEN flushed[t] /\ ret[t] = flush_ret[t]
                 ELSE ~flushed[t] /\ ret[t] /\ log[t] = <<>>
        /\ (Done(t) /\ op[t] = "bad_add") => (~ret[t] /\ ~flushed[t])

C8_Witness ==
    /\ Done(1) /\ op[1] = "add" /\ flushed[1]
    /\ Len(appended[1]) >= batch_size
    /\ ~ret[1] /\ ~flush_ret[1]

\* C9: with one caller, chunks are attempted in index order without gaps;
\* after a chunk's last attempt failed nothing more is attempted and the
\* flush returns False; the rows of the chunks confirmed before it are the
\* last rows of the store.
C9_FirstChunkFailureAborts ==
    \A t \in Threads :
        /\ \A i \in DOMAIN log[t] :
              /\ i = 1 => log[t][i].idx = 0
              /\ i > 1 => log[t][i].idx \in
                            {log[t][i - 1].idx, log[t][i - 1].idx + 1}
              /\ (log[t][i].out # "ok" /\ log[t][i].att = max_retries - 1)
                    => (i = Len(log[t]) /\ Done(t) /\ ~flush_ret[t])
        /\ IsSuffix(OkRows(log[t]), store)

C9_Witness ==
    /\ Done(1) /\ ~flush_ret[1]
    /\ Len(entry[1]) = 2 * batch_size + 1
    /\ ChunkIdxs(1) = {0, 1}
    /\ \E i \in DOMAIN log[1] : log[1][i].idx = 0 /\ log[1][i].out = "ok"
    /\ pending_batch = entry[1]

\* C10: only an insert that returned rows counts as written. An attempt
\* that returned no rows without raising is followed by the next attempt on
\* the same chunk when one remains, and by flush_batch returning False when
\* it was attempt max_retries - 1; an attempt after which the next chunk is
\* written, or the flush returns True, returned rows.
C10_EmptyConfirmationIsFailure ==
    \A t \in Threads : \A i \in DOMAIN log[t] :
        LET e == log[t][i]
            last == i = Len(log[t])
        IN
        /\ e.out = "empty" =>
              IF e.att < max_retries - 1
              THEN IF last
                   THEN pc[t] = "write" /\ chunk_idx[t] = e.idx
                        /\ attempt[t] = e.att + 1
                   ELSE log[t][i + 1].idx = e.idx
                        /\ log[t][i + 1].att = e.att + 1
              ELSE last /\ Done(t) /\ ~flush_ret[t]
        /\ (~last /\ log[t][i + 1].idx # e.idx) => e.out = "ok"
        /\ (last /\ (pc[t] = "clear" \/ (Done(t) /\ flush_ret[t])))
              => e.out = "ok"

C10_Witness ==
    /\ Done(1) /\ ~flush_ret[1]
    /\ Len(log[1]) = max_retries
    /\ \A i \in DOMAIN log[1] : log[1][i].out = "empty"

\* C11: after every attempt that is followed by another attempt on the same
\* chunk, the engine slept 0.5 * 2^attempt seconds (2^attempt half seconds),
\* attempt being the index of the attempt that just failed.
C11_BackoffBetweenAttempts ==
    \A t \in Threads : \A i \in DOMAIN log[t] :
        (i < Len(log[t]) /\ log[t][i + 1].idx = log[t][i].idx)
            => log[t][i].sleep = 2 ^ log[t][i].att

\* C12: an explicit flush_batch that found nothing pending returned True,
\* issued no insert and left pending_batch empty.
C12_EmptyFlushIsNoOp ==
    \A t \in Threads :
        (Done(t) /\ op[t] = "flush" /\ entry[t] = <<>>)
            => /\ flush_ret[t] /\ ret[t]
               /\ log[t] = <<>>
               /\ pending_batch = <<>>

C12_Witness ==
    /\ Done(1) /\ op[1] = "flush" /\ entry[1] = <<>>
    /\ flush_ret[1] /\ log[1] = <<>>
    /\ store # <<>>

\* C13: with one caller, a record that is pending before a step and no
\* longer pending after it is a row of the store.
C13_RecordLifecycle ==
    [][\A i \in DOMAIN pending_batch :
          pending_batch[i].id \notin Ids(pending_batch')
              => pending_batch[i].id \in Ids(store)]_vars

C13_Witness ==
    /\ FlushDone(1) /\ flush_ret[1]
    /\ pending_batch = <<>>
    /\ Len(entry[1]) > batch_size
    /\ Len(store) > adds

ReadOnlyRoutes == {"status", "health", "query", "config"}

\* A limit or offset that is no non-negative integer.
InvalidArg(arg) == arg \in {"-1", "x"}

\* C15: POST /telemetry/parse fails only without a body. With a body and
\* store=true it answers 200 and success true whatever add_telemetry_data
\* returned, and reports that value as `stored`; with store=false it
\* answers 200 and success true without `stored`.
C15_IngestFailsOnlyWithoutBody ==
    \A t \in Threads :
        /\ (Done(t) /\ op[t] = "add") =>
              /\ resp[t].route = "parse"
              /\ resp[t].status = 200 /\ resp[t].success = "true"
              /\ resp[t].stored = Str(ret[t])
        /\ op[t] = "ingest_nostore" =>
              /\ resp[t].status = 200 /\ resp[t].success = "true"
              /\ resp[t].stored = "absent"
        /\ (resp[t].route = "parse" /\ resp[t].status # 200)
              => (op[t] = "ingest_nobody" /\ resp[t].status = 400)

C15_Witness ==
    /\ Done(1) /\ op[1] = "add" /\ ~ret[1]
    /\ resp[1].status = 200 /\ resp[1].success = "true"
    /\ resp[1].stored = "false"

\* C16: with one caller, an add that leaves fewer than batch_size records
\* pending makes no call to the store, keeps the record and returns True;
\* an add returns False only when it flushed; a request whose probes of the
\* store all failed still answers (200 for status and health) and shows the
\* failure as supabase_healthy / supabase_connected false.
C16_UnreachableStoreDoesNotBlockIngest ==
    \A t \in Threads :
        /\ (Done(t) /\ op[t] = "add" /\ Len(appended[t]) < batch_size) =>
              /\ ret[t] /\ resp[t].stored = "true"
              /\ log[t] = <<>>
              /\ pending_batch = appended[t]
        /\ (Done(t) /\ op[t] = "add" /\ ~ret[t]) => flushed[t]
        /\ (resp[t].probes # <<>>
            /\ \A i \in DOMAIN resp[t].probes : resp[t].probes[i] = "raise") =>
              /\ resp[t].healthy = "false"
              /\ resp[t].route = "health" => resp[t].connected = "false"
              /\ resp[t].route \in {"status", "health", "parse"}
                    => resp[t].status = 200

C16_Witness ==
    /\ Done(1) /\ op[1] = "add"
    /\ Len(appended[1]) < batch_size
    /\ ret[1] /\ pending_batch = appended[1]
    /\ resp[1].healthy = "false"
    /\ store = <<>>

\* C17: a query whose limit or offset is no non-negative integer is
\* answered with a client error (4xx) and no query reaches the store.
C17_QueryValidatesParameters ==
    \A t \in Threads :
        (resp[t].route = "query"
         /\ (InvalidArg(resp[t].limit) \/ InvalidArg(resp[t].offset)))
            => (resp[t].status \in 400 .. 499 /\ ~resp[t].queried)

\* C18: with one caller, a step that issues an insert belongs to an explicit
\* flush or to an add whose append brought the batch to batch_size or more;
\* a status, health, query or config request leaves the pending batch and
\* the store as they are.
C18_FlushOnlyOnThresholdOrRequest ==
    [][\A t \in Threads :
          /\ Len(log'[t]) > Len(log[t]) =>
                \/ op[t] = "flush"
                \/ op[t] = "add" /\ Len(appended[t]) >= batch_size
          /\ (pc[t] = "idle" /\ op'[t] \in ReadOnlyRoutes) =>
                (pending_batch' = pending_batch /\ store' = store)]_vars

C18_Witness ==
    /\ Done(1) /\ op[1] = "status"
    /\ resp[1].pending = Len(pending_batch)
    /\ Len(pending_batch) \in 1 .. (batch_size - 1)
    /\ ~everInsert

\* A value text has been converted.
Converted == converted # None

\* A line has been parsed.
Parsed == parsed_data # EmptyDict

\* C19: a value with '.' becomes a float or stays a string and a value
\* without '.' becomes an int or stays a string, each exactly when the
\* literal is one of that type; a value that stays a string is the trimmed
\* text unchanged. So "1.0.1" stays the string "1.0.1", and "1e1", which
\* float() would accept, stays the string "1e1".
C19_ConversionRoutesOnDot ==
    Converted =>
        LET trimmed == Strip(raw_value)
        IN /\ Contains(trimmed, ".") =>
                 /\ converted.kind \in {"float", "str"}
                 /\ converted.kind = "float" <=> IsFloatLiteral(trimmed)
           /\ ~Contains(trimmed, ".") =>
                 /\ converted.kind \in {"int", "str"}
                 /\ converted.kind = "int" <=> IsIntLiteral(trimmed)
           /\ converted.kind = "str" => converted.text = trimmed
           /\ trimmed = <<"1", ".", "0", ".", "1">>
                 => converted = StrOf(trimmed)
           /\ trimmed = <<"1", "e", "1">> => converted = StrOf(trimmed)

C19_Witness ==
    /\ raw_value = <<" ", "1", "e", "1", " ">>
    /\ IsFloatLiteral(Strip(raw_value))
    /\ converted = StrOf(<<"1", "e", "1">>)

\* C20: every parsed record holds raw_data equal to the line as it came,
\* parser_version "1.0" and data_source "flask_api", also when the line
\* has a pair under one of these keys; a line without ':' yields these
\* three fields and no other.
C20_MetadataConstant ==
    Parsed =>
        /\ MetadataKeys \subseteq DOMAIN parsed_data
        /\ parsed_data[<<"raw_data">>] = StrOf(raw_data)
        /\ parsed_data[<<"parser_version">>] = StrOf(<<"1.0">>)
        /\ parsed_data[<<"data_source">>] = StrOf(<<"flask_api">>)
        /\ ~Contains(raw_data, ":") => DOMAIN parsed_data = MetadataKeys

C20_Witness ==
    /\ raw_data = <<"RAW_DATA", ":", "1", ",">>
    /\ parsed_data[<<"raw_data">>] = StrOf(raw_data)
    /\ DOMAIN parsed_data = MetadataKeys

\* How many rows of the store hold record `id`.
Copies(rows, id) == Cardinality({ i \in DOMAIN rows : rows[i].id = id })

\* Thread t's operation got record `id` confirmed in some chunk.
Wrote(t, id) ==
    \E i \in DOMAIN log[t] : log[t][i].out = "ok" /\ id \in Ids(log[t][i].chunk)

\* C21: nothing keeps two callers from being inside flush_batch at one
\* time; when both get a chunk with the same record confirmed the store
\* holds that record twice, and with batches of one chunk a record is in
\* the store twice only after two flushes ran at the same time.
C21_ConcurrentFlushesDuplicate ==
    \A id \in 1 .. adds :
        /\ (Wrote(1, id) /\ Wrote(2, id)) => Copies(store, id) >= 2
        /\ Copies(store, id) >= 2 => overlap
        /\ (InFlush(1) /\ InFlush(2)) => overlap

C21_Witness ==
    /\ Done(1) /\ Done(2)
    /\ flushed[1] /\ flushed[2] /\ flush_ret[1] /\ flush_ret[2]
    /\ overlap
    /\ \E id \in 1 .. adds :
          Wrote(1, id) /\ Wrote(2, id) /\ Copies(store, id) = 2

\* C22: with one caller, an add that returned False after its threshold
\* flush failed has appended its record, and the pending batch is still
\* what it was right after that append: the record is its last element.
C22_FailedAddKeepsRecord ==
    \A t \in Threads :
        (Done(t) /\ op[t] = "add" /\ ~ret[t]) =>
            /\ flushed[t] /\ ~flush_ret[t]
            /\ appended[t] # <<>>
            /\ pending_batch = appended[t]
            /\ pending_batch[Len(pending_batch)].id = adds
            /\ Len(pending_batch) >= batch_size

C22_Witness ==
    /\ Done(1) /\ op[1] = "add" /\ ~ret[1]
    /\ Len(pending_batch) = batch_size + 1
    /\ pending_batch[Len(pending_batch)].id = adds
    /\ store = <<>>

\* C23: with one caller, a flush that got a chunk confirmed and then failed
\* on a later chunk leaves the whole batch pending, the confirmed records
\* included, while their rows stay in the store; every flush starts with
\* the first records of the batch, so the next one writes them again; and a
\* record that is no longer pending is in the store at least once.
C23_PartialFlushRewrites ==
    /\ \A t \in Threads :
          /\ (FlushDone(t) /\ ~flush_ret[t]) =>
                /\ pending_batch = entry[t]
                /\ Ids(OkRows(log[t])) \subseteq Ids(pending_batch)
                /\ Ids(OkRows(log[t])) \subseteq Ids(store)
          /\ log[t] # <<>> => log[t][1].chunk = Slice(entry[t], 0)
    /\ \A id \in 1 .. adds :
          /\ id \notin Ids(pending_batch) => Copies(store, id) >= 1
          /\ Copies(store, id) <= flush_calls

C23_Witness ==
    /\ FlushDone(1) /\ flush_ret[1] /\ pending_batch = <<>>
    /\ Len(entry[1]) > batch_size
    /\ Copies(store, 1) = 2
    /\ Copies(store, entry[1][Len(entry[1])].id) = 1

\* C24: with one caller, an add whose threshold flush failed leaves
\* batch_size records or more pending; the batch gets shorter only when a
\* flush succeeds and clears it, and grows by one with every add; every add
\* that finds batch_size records or more after its append runs flush_batch,
\* which takes the whole batch and makes its first attempt on its first
\* records.
C24_FailedFlushRetriggers ==
    [][\A t \in Threads :
          /\ (Done(t) /\ op[t] = "add" /\ ~ret[t]) =>
                (stale /\ Len(pending_batch) >= batch_size)
          /\ Len(pending_batch') < Len(pending_batch) =>
                (pending_batch' = <<>> /\ ~stale'
                 /\ \E u \in Threads : pc[u] = "clear" /\ flush_ret'[u])
          /\ (pc[t] = "idle" /\ pc'[t] = "add_check") =>
                Len(pending_batch') = Len(pending_batch) + 1
          /\ (pc[t] = "add_check" /\ Len(pending_batch) >= batch_size) =>
                (pc'[t] = "flush_check" /\ flushed'[t])
          /\ (pc[t] = "flush_check" /\ op[t] = "add") =>
                entry'[t] = appended[t]
          /\ (op[t] = "add" /\ log[t] # <<>>) =>
                /\ log[t][1].idx = 0
                /\ log[t][1].chunk =
                      SubSeq(entry[t], 1, Min(batch_size, Len(entry[t])))]_vars

C24_Witness ==
    /\ Done(1) /\ op[1] = "add" /\ ret[1] /\ flushed[1]
    /\ Len(entry[1]) = batch_size + 2
    /\ pending_batch = <<>> /\ ~stale
    /\ Copies(store, 1) = 1

\* The attempts of thread t's operation on chunk k that were followed by a
\* sleep.
SleepsOn(t, k) == { i \in AttemptsOn(t, k) : log[t][i].sleep > 0 }

====
